---- MODULE Spec2Model ----
(***************************************************************************)
(* Model of backend/app.py: the virtual try-on endpoint swap_clothing, its *)
(* two image validators (validate_person_image, validate_clothing_image),  *)
(* the Gemini generation adapter (generate_tryon_image) and the            *)
(* recommendation step.                                                    *)
(*                                                                         *)
(* Two specifications:                                                     *)
(*   SpecV  applies the validators, as functions of (image, detector       *)
(*          result), to every input of a bounded input space;              *)
(*   Spec   runs one request through swap_clothing step by step, each      *)
(*          capability call (detector, generator, recommender) answering   *)
(*          nondeterministically.                                          *)
(***************************************************************************)
EXTENDS Integers, Sequences, FiniteSets, TLC

VARIABLES
    vkind,      \* SpecV: which validator has been applied ("none" before)
    vimg,       \* SpecV: the decoded image handed to the validator
    vdet,       \* SpecV: what _run_yolo returns for that image
    vres,       \* SpecV: the validator's result
    pc,         \* Spec: position of the request inside swap_clothing
    num_clothes,\* Spec: len(clothing_images)
    size,       \* Spec: the size label (raw until normalised at line 265)
    img,        \* Spec: the image of the validator call that ended the request
    idx,        \* Spec: loop index of the clothing / generation loop
    logs,       \* Spec: the logs list
    results,    \* Spec: the results list
    calls,      \* Spec: validator runs and capability calls so far, in order
    response    \* Spec: the HTTP response, once the request has ended

vvars == <<vkind, vimg, vdet, vres>>
rvars == <<pc, num_clothes, size, img, idx, logs, results, calls, response>>
vars  == <<vkind, vimg, vdet, vres, pc, num_clothes, size, img, idx, logs,
           results, calls, response>>

-----------------------------------------------------------------------------
(* Bounds of the model *)

\* most boxes in one detector result
MaxBoxes == 2
\* most clothing images in one request (5 is the first invalid count)
MaxClothes == 5
\* longest raw size label, in characters
MaxLabelLen == 1
\* most candidates in one Gemini response
MaxCandidates == 2
\* most parts in one Gemini response, over all its candidates
MaxParts == 2

-----------------------------------------------------------------------------
(* Program constants *)

\* validate_person_image: min_side < 256
PersonMinSide == 256
\* validate_clothing_image: min(img.size) < 128
ClothingMinSide == 128
\* std < 5 in both validators
BlankStd == 5
\* num_clothes < 1 or num_clothes > 4
MinItems == 1
MaxItems == 4

-----------------------------------------------------------------------------
(* Images and detector results *)

Min2(a, b) == IF a < b THEN a ELSE b

\* img.size of a decoded PIL image is (width, height); std is np.std of its
\* pixels, rounded down to an integer level of the 0..255 scale.
ImageDims == { <<127, 400>>, <<128, 300>>, <<255, 400>>, <<400, 256>>,
               <<400, 400>> }
StdLevels == {4, 5}
Images == { [w |-> d[1], h |-> d[2], std |-> s] : d \in ImageDims, s \in StdLevels }

\* Box geometries (x2 - x1, y2 - y1) in pixels.
BoxGeoms == { <<160, 320>>, <<360, 380>>, <<100, 400>>, <<280, 400>>,
              <<50, 160>>, <<80, 80>>, <<40, 0>>, <<0, 320>>,
              <<99, 400>>, <<281, 400>> }

\* Class ids a row of result.boxes.cls can carry.
ClassIds == {0, 16}

\* One row of result.boxes: its class id and its xyxy extent.
Boxes(im) == { [cls |-> c, bw |-> g[1], bh |-> g[2]] :
                 c \in ClassIds,
                 g \in { gg \in BoxGeoms : gg[1] <= im.w /\ gg[2] <= im.h } }

SeqsUpTo(S, n) == UNION { [1..k -> S] : k \in 0..n }

\* What _run_yolo can do on an image: raise, or return result.boxes.
Detections(im) ==
    { [ok |-> TRUE, boxes |-> b] : b \in SeqsUpTo(Boxes(im), MaxBoxes) }
      \cup { [ok |-> FALSE, boxes |-> << >>] }

\* result.names, the detector's class table (COCO: 0 is person, 16 is dog)
Names(c) == IF c = 0 THEN "person" ELSE "dog"

-----------------------------------------------------------------------------
(* _get_person_boxes *)

\* person_ids = [cid for cid, name in names.items() if name == "person"]
IsPersonClass(c) == Names(c) = "person"

\* Mutant: the class filter of line 126 left out.
GetPersonBoxes_AnyClass(boxes, im) ==
    [k \in 1..Len(boxes) |->
        [area_frac |-> <<boxes[k].bw * boxes[k].bh, im.h * im.w>>]]

\* The rows of result.boxes whose class is a person class, in order, each
\* reduced to its area fraction <<box area, image area>>.
GetPersonBoxes(boxes, im) ==
    LET persons == SelectSeq(boxes, LAMBDA b : IsPersonClass(b.cls))
    IN  [k \in 1..Len(persons) |->
            [area_frac |-> <<persons[k].bw * persons[k].bh, im.h * im.w>>]]

-----------------------------------------------------------------------------
(* Validator results *)

\* The validator returned normally; `rules` lists the rules it evaluated.
Accepted(rules, ndet, note) ==
    [outcome |-> "accepted", reason |-> note, status |-> 0,
     rules |-> rules, detCalls |-> ndet]

\* The validator raised HTTPException(400, <message of `reason`>).
Rejected(reason, rules, ndet) ==
    [outcome |-> "rejected", reason |-> reason, status |-> 400,
     rules |-> rules, detCalls |-> ndet]

\* Another exception escaped the validator (the detector raised).
Raised(rules, ndet) ==
    [outcome |-> "raised", reason |-> "internal_error", status |-> 500,
     rules |-> rules, detCalls |-> ndet]

NotRun == [outcome |-> "none", reason |-> "", status |-> 0,
           rules |-> << >>, detCalls |-> 0]

-----------------------------------------------------------------------------
(* validate_person_image *)

\* min(img.size)
MinSide(im) == Min2(im.w, im.h)

\* det = result.boxes.xyxy.cpu().numpy()[0]: the first row of ALL boxes.
GeometryBox(boxes) == boxes[1]

\* width_frac = (x2 - x1) / w and height_frac = (y2 - y1) / h, as exact
\* fractions <<numerator, denominator>>.
WidthFrac(b, im)  == <<b.bw, im.w>>
HeightFrac(b, im) == <<b.bh, im.h>>

\* Mutant: <= 0.05 in place of < 0.05.
AreaTooSmall_Inclusive(wf, hf) == wf[1] * hf[1] * 100 <= 5 * wf[2] * hf[2]

\* width_frac * height_frac < 0.05
AreaTooSmall(wf, hf) == wf[1] * hf[1] * 100 < 5 * wf[2] * hf[2]

\* ratio = width_frac / height_frac; ratio < 0.25 or ratio > 0.7.
\* The operands are numpy floats: x / 0 is inf (rejected by ratio > 0.7)
\* and 0 / 0 is nan (both comparisons false), neither raises.
RatioOutOfRange(wf, hf) ==
    LET num == wf[1] * hf[2]
        den == wf[2] * hf[1]
    IN  IF den = 0 THEN num # 0
        ELSE \/ num * 100 < 25 * den
             \/ num * 10 > 7 * den

\* Mutant: the ratio computed and tested before the area test.
CheckGeometry_RatioFirst(b, im) ==
    LET wf == WidthFrac(b, im)
        hf == HeightFrac(b, im)
    IN  IF RatioOutOfRange(wf, hf)
        THEN Rejected("non_frontal_pose",
                      <<"size", "detect", "count", "ratio">>, 1)
        ELSE IF AreaTooSmall(wf, hf)
        THEN Rejected("person_too_small",
                      <<"size", "detect", "count", "ratio", "area">>, 1)
        ELSE Accepted(<<"size", "detect", "count", "ratio", "area">>, 1,
                      "valid_single_person")

\* The size and pose checks of lines 170-187 on the box `b`.
CheckGeometry(b, im) ==
    LET wf == WidthFrac(b, im)
        hf == HeightFrac(b, im)
    IN  IF AreaTooSmall(wf, hf)
        THEN Rejected("person_too_small",
                      <<"size", "detect", "count", "area">>, 1)
        ELSE IF RatioOutOfRange(wf, hf)
        THEN Rejected("non_frontal_pose",
                      <<"size", "detect", "count", "area", "ratio">>, 1)
        ELSE Accepted(<<"size", "detect", "count", "area", "ratio">>, 1,
                      "valid_single_person")

\* Mutant: > 2 in place of > 1.
TooManyPeople_Over2(persons) == Len(persons) > 2

\* len(persons) > 1
TooManyPeople(persons) == Len(persons) > 1

\* Mutant: the count test moved after the size and pose checks.
PersonAfterSize_CountLast(im, det) ==
    IF ~det.ok THEN Raised(<<"size", "detect">>, 1)
    ELSE LET persons == GetPersonBoxes(det.boxes, im)
             geometry == CheckGeometry(GeometryBox(det.boxes), im)
         IN  IF Len(persons) = 0
             THEN IF im.std < BlankStd
                  THEN Rejected("blank_or_corrupt",
                                <<"size", "detect", "fallback">>, 1)
                  ELSE Accepted(<<"size", "detect", "fallback">>, 1,
                                "no_person_but_looks_valid")
             ELSE IF geometry.outcome = "rejected" THEN geometry
             ELSE IF TooManyPeople(persons)
             THEN Rejected("multiple_people", geometry.rules, 1)
             ELSE geometry

\* Lines 154-187: everything from the detector call on.
PersonAfterSize(im, det) ==
    IF ~det.ok THEN Raised(<<"size", "detect">>, 1)
    ELSE LET persons == GetPersonBoxes(det.boxes, im)
         IN  IF Len(persons) = 0
             THEN IF im.std < BlankStd
                  THEN Rejected("blank_or_corrupt",
                                <<"size", "detect", "fallback">>, 1)
                  ELSE Accepted(<<"size", "detect", "fallback">>, 1,
                                "no_person_but_looks_valid")
             ELSE IF TooManyPeople(persons)
             THEN Rejected("multiple_people", <<"size", "detect", "count">>, 1)
             ELSE CheckGeometry(GeometryBox(det.boxes), im)

\* Mutant: the detector run before the size check.
ValidatePersonImage_DetectFirst(im, det) ==
    IF ~det.ok THEN Raised(<<"detect">>, 1)
    ELSE IF MinSide(im) < PersonMinSide
    THEN Rejected("image_too_small", <<"detect", "size">>, 1)
    ELSE PersonAfterSize(im, det)

\* validate_person_image(img), the detector answering `det` if it is run.
ValidatePersonImage(im, det) ==
    IF MinSide(im) < PersonMinSide
    THEN Rejected("image_too_small", <<"size">>, 0)
    ELSE PersonAfterSize(im, det)

-----------------------------------------------------------------------------
(* validate_clothing_image *)

\* Mutant: only person-class boxes count as a detection.
DetectedSomething_PersonOnly(det) ==
    \E k \in DOMAIN det.boxes : IsPersonClass(det.boxes[k].cls)

\* boxes is not None and boxes.cls is not None and len(boxes.cls) > 0
DetectedSomething(det) == Len(det.boxes) > 0

\* Lines 200-214: everything from the detector call on.
ClothingAfterSize(im, det) ==
    IF ~det.ok THEN Raised(<<"size", "detect">>, 1)
    ELSE IF DetectedSomething(det)
    THEN Accepted(<<"size", "detect">>, 1, "detected_something")
    ELSE IF im.std < BlankStd
    THEN Rejected("blank_clothing_image", <<"size", "detect", "fallback">>, 1)
    ELSE Accepted(<<"size", "detect", "fallback">>, 1,
                  "nothing_found_but_looks_valid")

\* Mutant: the detector run before the size check.
ValidateClothingImage_DetectFirst(im, det) ==
    IF ~det.ok THEN Raised(<<"detect">>, 1)
    ELSE IF MinSide(im) < ClothingMinSide
    THEN Rejected("clothing_too_small", <<"detect", "size">>, 1)
    ELSE ClothingAfterSize(im, det)

\* validate_clothing_image(img), the detector answering `det` if it is run.
ValidateClothingImage(im, det) ==
    IF MinSide(im) < ClothingMinSide
    THEN Rejected("clothing_too_small", <<"size">>, 0)
    ELSE ClothingAfterSize(im, det)

-----------------------------------------------------------------------------
(* SpecV: the validators applied to every input of the input space *)

NoImage == [w |-> 0, h |-> 0, std |-> 0]
NoDetection == [ok |-> FALSE, boxes |-> << >>]
NoResponse == [status |-> 0, success |-> FALSE, detail |-> "", item |-> 0,
               size |-> << >>, results |-> << >>, logs |-> << >>]

RequestIdle ==
    /\ pc = "start"
    /\ num_clothes = 0
    /\ size = << >>
    /\ img = NoImage
    /\ idx = 0
    /\ logs = << >>
    /\ results = << >>
    /\ calls = << >>
    /\ response = NoResponse

InitV ==
    /\ vkind = "none"
    /\ vimg \in Images
    /\ vdet \in Detections(vimg)
    /\ vres = NotRun
    /\ RequestIdle

ApplyValidatePerson ==
    /\ vkind = "none"
    /\ vkind' = "person"
    /\ vres' = ValidatePersonImage(vimg, vdet)
    /\ UNCHANGED <<vimg, vdet>>
    /\ UNCHANGED rvars

ApplyValidateClothing ==
    /\ vkind = "none"
    /\ vkind' = "clothing"
    /\ vres' = ValidateClothingImage(vimg, vdet)
    /\ UNCHANGED <<vimg, vdet>>
    /\ UNCHANGED rvars

NextV == ApplyValidatePerson \/ ApplyValidateClothing

SpecV == InitV /\ [][NextV]_vars

-----------------------------------------------------------------------------
(* The size label: size.upper().strip() *)

LabelChars == {"m", " "}
RawLabels == SeqsUpTo(LabelChars, MaxLabelLen)

\* str.upper on one character
UpperChar(c) == IF c = "m" THEN "M" ELSE c

Upper(s) == [k \in 1..Len(s) |-> UpperChar(s[k])]

RECURSIVE LStrip(_)
LStrip(s) == IF s # << >> /\ Head(s) = " " THEN LStrip(Tail(s)) ELSE s

RECURSIVE RStrip(_)
RStrip(s) ==
    IF s # << >> /\ s[Len(s)] = " " THEN RStrip(SubSeq(s, 1, Len(s) - 1)) ELSE s

Strip(s) == RStrip(LStrip(s))

\* size = size.upper().strip()
NormalizeSize(raw) == Strip(Upper(raw))

-----------------------------------------------------------------------------
(* generate_tryon_image: the image taken out of the Gemini response *)

\* A part of a candidate: without inline_data (text), with inline_data whose
\* data is empty, or with inline_data carrying image bytes.  mime is "" when
\* inline_data.mime_type is None.
TextPart  == [inline |-> FALSE, data |-> "", mime |-> ""]
EmptyPart == [inline |-> TRUE, data |-> "", mime |-> "image/png"]
ImagePart == [inline |-> TRUE, data |-> "IMG", mime |-> ""]
Parts == {TextPart, EmptyPart, ImagePart}

Candidates == SeqsUpTo(Parts, MaxParts)

\* What gemini_client.models.generate_content can do: raise, or return a
\* response with some candidates.
RECURSIVE TotalParts(_)
TotalParts(cands) ==
    IF cands = << >> THEN 0 ELSE Len(Head(cands)) + TotalParts(Tail(cands))

GenOutcomes ==
    { [ok |-> TRUE, candidates |-> c] :
        c \in { cc \in SeqsUpTo(Candidates, MaxCandidates) : TotalParts(cc) <= MaxParts } }
      \cup { [ok |-> FALSE, candidates |-> << >>] }

\* Index of the first part with inline_data, 0 when there is none.
RECURSIVE FirstInline(_, _)
FirstInline(parts, k) ==
    IF k > Len(parts) THEN 0
    ELSE IF parts[k].inline THEN k
    ELSE FirstInline(parts, k + 1)

\* The loop of lines 233-242 from candidate k on, `cur` being
\* (image_bytes, mime_type) so far.
RECURSIVE ScanCandidates(_, _, _)
ScanCandidates(cands, k, cur) ==
    IF k > Len(cands) THEN cur
    ELSE LET p == FirstInline(cands[k], 1)
             nxt == IF p = 0 THEN cur
                    ELSE [data |-> cands[k][p].data,
                          mime |-> IF cands[k][p].mime = "" THEN "image/png"
                                   ELSE cands[k][p].mime]
         IN  IF nxt.data # "" THEN nxt
             ELSE ScanCandidates(cands, k + 1, nxt)

\* image_bytes, mime_type after the loops (data "" stands for None or b"").
ExtractImage(cands) ==
    ScanCandidates(cands, 1, [data |-> "", mime |-> "image/png"])

\* f"data:{mime_type};base64,{b64}"
DataUrl(image) == [mime |-> image.mime, b64 |-> image.data]

-----------------------------------------------------------------------------
(* Recommender outcomes (lines 303-317) *)

\* raise: generate_content raised; no_candidates: candidates is empty;
\* no_text: parts[0].text is None (.strip() raises); blank_text: the text is
\* empty after strip(); text: a recommendation.
RecOutcomes == {"raise", "no_candidates", "no_text", "blank_text", "text"}

-----------------------------------------------------------------------------
(* Log entries, responses and capability calls *)

\* Mutant: the per-item entries numbered from 0 (i in place of i + 1).
Log_ZeroBased(tag, num, txt) ==
    [tag |-> tag,
     num |-> IF tag \in {"clothing_validated", "generated"} THEN num - 1 ELSE num,
     txt |-> txt]

\* logs.append(...): one entry, by its kind, the number and the label in it.
Log(tag, num, txt) == [tag |-> tag, num |-> num, txt |-> txt]

\* One entry of the call history: a validator run (cap "validate_person" or
\* "validate_clothing", out its outcome) or a capability call (cap
\* "detector", "generator" or "recommender").  arg says what the call was
\* about, num is the clothing index it belongs to (for the recommender, the
\* number of images it is given), label the size label handed to the
\* generator (for the recommender, the images handed over).
Call(cap, arg, num, out, label) ==
    [cap |-> cap, arg |-> arg, num |-> num, out |-> out, label |-> label]

\* http_exception_handler: the envelope of an HTTPException
HttpError(status, reason, item) ==
    [status |-> status, success |-> FALSE, detail |-> reason, item |-> item,
     size |-> << >>, results |-> << >>, logs |-> << >>]

\* Mutant: no catch-all middleware, the server's bare 500 without envelope.
InternalError_Unhandled ==
    [status |-> 500, success |-> FALSE, detail |-> "", item |-> 0,
     size |-> << >>, results |-> << >>, logs |-> << >>]

\* catch_all_exceptions: the envelope of any other exception
InternalError ==
    [status |-> 500, success |-> FALSE, detail |-> "internal_error", item |-> 0,
     size |-> << >>, results |-> << >>, logs |-> << >>]

\* TryOnResponse(success=True, size=size, results=results, logs=logs)
Success(sz, res, lg) ==
    [status |-> 200, success |-> TRUE, detail |-> "", item |-> 0,
     size |-> sz, results |-> res, logs |-> lg]

\* The envelope of a validator's failure.
ValidatorFailure(r) ==
    IF r.outcome = "rejected" THEN HttpError(r.status, r.reason, 0)
    ELSE InternalError

\* Mutant: a detector call that raised is tried a second time.
WithValidatorRun_Retry(cs, r, what, num) ==
    LET ran == Call("validate_" \o what, what, num, r.outcome, << >>)
        det == Call("detector", what, num, "", << >>)
    IN  IF r.detCalls = 0 THEN Append(cs, ran)
        ELSE IF r.outcome = "raised" THEN Append(Append(Append(cs, det), det), ran)
        ELSE Append(Append(cs, det), ran)

\* The call history after a validator run with result r: the detector call
\* it made, if any, then the run itself.
WithValidatorRun(cs, r, what, num) ==
    LET ran == Call("validate_" \o what, what, num, r.outcome, << >>)
    IN  IF r.detCalls = 0 THEN Append(cs, ran)
        ELSE Append(Append(cs, Call("detector", what, num, "", << >>)), ran)

\* Mutant: a rejection is skipped over instead of ending the request.
Proceeds_SkipRejected(r) == r.outcome # "raised"

\* The validator returned normally, so swap_clothing goes on (lines 274, 279).
Proceeds(r) == r.outcome = "accepted"

\* Whether the backend's response carries image bytes in any part.
HasImage(cands) ==
    \E k \in DOMAIN cands : \E j \in DOMAIN cands[k] :
        cands[k][j].inline /\ cands[k][j].data # ""

\* Mutant: the check of line 244 left out.
GenerationEmpty_Unchecked(image) == FALSE

\* if not image_bytes (line 244)
GenerationEmpty(image) == image.data = ""

\* Mutant: one-based result indices.
ResultIndex_OneBased(i) == i + 1

\* TryOnResult(index=idx, ...) (line 288)
ResultIndex(i) == i

\* Mutant: the except clause catches nothing that the try block raises.
ExceptClauseCatches_None(o) == FALSE

\* except Exception (line 316): every exception of the try block is caught.
ExceptClauseCatches(o) == TRUE

\* Mutant: the generated images handed over in reverse order.
OutfitInputs_Reversed(res) ==
    [k \in 1..Len(res) |-> res[Len(res) + 1 - k].index]

\* outfit_inputs (line 295): the generated images in the order of results,
\* each named by the index of the result it was decoded from.
OutfitInputs(res) == [k \in 1..Len(res) |-> res[k].index]

\* The outcomes of the try block that raise.
RecRaises(o) == o \in {"raise", "no_text"}

-----------------------------------------------------------------------------
(* swap_clothing, step by step *)

Init ==
    /\ vkind = "none"
    /\ vimg = NoImage
    /\ vdet = NoDetection
    /\ vres = NotRun
    /\ RequestIdle

\* Mutant: the upper limit off by one.
InvalidItemCount_UpTo5(n) == n < MinItems \/ n > MaxItems + 1

\* num_clothes < 1 or num_clothes > 4
InvalidItemCount(n) == n < MinItems \/ n > MaxItems

\* The request ends with response `r`.
Finish(r) ==
    /\ response' = r
    /\ pc' = "done"

\* Lines 259-270: count check, label normalisation, first log entry, reading
\* the uploads.
ReceiveRequest ==
    /\ pc = "start"
    /\ \E n \in 0..MaxClothes, raw \in RawLabels :
         /\ num_clothes' = n
         /\ IF InvalidItemCount(n)
            THEN /\ Finish(HttpError(400, "invalid_item_count", n))
                 /\ UNCHANGED <<size, logs>>
            ELSE /\ size' = NormalizeSize(raw)
                 /\ logs' = Append(logs, Log("received", n, NormalizeSize(raw)))
                 /\ pc' = "person"
                 /\ UNCHANGED response
    /\ UNCHANGED <<img, idx, results, calls>>
    /\ UNCHANGED vvars

\* Lines 273-275: Image.open raises on bytes that are no image; otherwise
\* validate_person_image runs on the decoded image.
ValidatePersonStep ==
    /\ pc = "person"
    /\ \/ /\ Finish(InternalError)
          /\ UNCHANGED <<img, idx, logs, calls>>
       \/ \E im \in Images : \E det \in Detections(im) :
            LET r == ValidatePersonImage(im, det) IN
            /\ calls' = WithValidatorRun(calls, r, "person", 0)
            /\ IF Proceeds(r)
               THEN /\ logs' = Append(logs, Log("person_validated", 0, << >>))
                    /\ pc' = "clothing"
                    /\ idx' = 0
                    /\ UNCHANGED <<img, response>>
               ELSE /\ Finish(ValidatorFailure(r))
                    /\ img' = im
                    /\ UNCHANGED <<idx, logs>>
    /\ UNCHANGED <<num_clothes, size, results>>
    /\ UNCHANGED vvars

\* Lines 277-282: one iteration of the clothing validation loop; the last
\* one falls through to the "Generating" log entry and results = [].
ValidateClothingStep ==
    /\ pc = "clothing"
    /\ idx < num_clothes
    /\ \/ /\ Finish(InternalError)
          /\ UNCHANGED <<img, idx, logs, calls>>
       \/ \E im \in Images : \E det \in Detections(im) :
            LET r == ValidateClothingImage(im, det)
                validated == Append(logs, Log("clothing_validated", idx + 1, << >>))
            IN
            /\ calls' = WithValidatorRun(calls, r, "clothing", idx)
            /\ IF Proceeds(r)
               THEN /\ IF idx + 1 < num_clothes
                       THEN /\ logs' = validated
                            /\ idx' = idx + 1
                            /\ pc' = "clothing"
                       ELSE /\ logs' = Append(validated, Log("generating", 0, << >>))
                            /\ idx' = 0
                            /\ pc' = "generate"
                    /\ UNCHANGED <<img, response>>
               ELSE /\ Finish(ValidatorFailure(r))
                    /\ img' = im
                    /\ UNCHANGED <<idx, logs>>
    /\ UNCHANGED <<num_clothes, size, results>>
    /\ UNCHANGED vvars

\* Lines 286-292 with generate_tryon_image (219-248): one iteration of the
\* generation loop; the last one falls through to the "Analyzing" entry.
GenerateStep ==
    /\ pc = "generate"
    /\ idx < num_clothes
    /\ \E g \in GenOutcomes :
         LET image == ExtractImage(g.candidates)
             generated == Append(logs, Log("generated", idx + 1, << >>))
         IN
         /\ calls' = Append(calls,
                Call("generator",
                     IF g.ok /\ HasImage(g.candidates) THEN "has_image" ELSE "no_image",
                     idx,
                     IF ~g.ok THEN "raised"
                     ELSE IF GenerationEmpty(image) THEN "generation_empty"
                     ELSE "returned",
                     size))
         /\ IF ~g.ok
            THEN /\ Finish(InternalError)
                 /\ UNCHANGED <<idx, logs, results>>
            ELSE IF GenerationEmpty(image)
            THEN /\ Finish(HttpError(500, "generation_empty", idx + 1))
                 /\ UNCHANGED <<idx, logs, results>>
            ELSE /\ results' = Append(results, [index |-> ResultIndex(idx), image |-> DataUrl(image)])
                 /\ UNCHANGED response
                 /\ IF idx + 1 < num_clothes
                    THEN /\ logs' = generated
                         /\ idx' = idx + 1
                         /\ pc' = "generate"
                    ELSE /\ logs' = Append(generated, Log("analyzing", 0, << >>))
                         /\ idx' = idx + 1
                         /\ pc' = "recommend"
    /\ UNCHANGED <<num_clothes, size, img>>
    /\ UNCHANGED vvars

\* The log entry the try block of lines 293-317 leaves for outcome `o`.
RecommendationLog(o) ==
    CASE o = "text"          -> Log("recommendation", 0, << >>)
      [] o = "no_candidates" -> Log("no_recommendation", 0, << >>)
      [] o = "blank_text"    -> Log("no_recommendation", 0, << >>)
      [] OTHER               -> Log("recommendation_failed", 0, << >>)

\* Lines 293-319: the recommendation attempt and the success response.
\* Decoding the generated images back (line 295) can raise before the
\* recommender is called; that lands in the same except clause.
RecommendStep ==
    /\ pc = "recommend"
    /\ \/ /\ logs' = Append(logs, Log("recommendation_failed", 0, << >>))
          /\ UNCHANGED calls
          /\ Finish(Success(size, results, logs'))
       \/ \E o \in RecOutcomes :
            /\ calls' = Append(calls,
                   Call("recommender", "", Len(results), o, OutfitInputs(results)))
            /\ IF RecRaises(o) /\ ~ExceptClauseCatches(o)
               THEN /\ Finish(InternalError)
                    /\ UNCHANGED logs
               ELSE /\ logs' = Append(logs, RecommendationLog(o))
                    /\ Finish(Success(size, results, logs'))
    /\ UNCHANGED <<num_clothes, size, img, idx, results>>
    /\ UNCHANGED vvars

Next ==
    \/ ReceiveRequest
    \/ ValidatePersonStep
    \/ ValidateClothingStep
    \/ GenerateStep
    \/ RecommendStep

Spec == Init /\ [][Next]_vars

-----------------------------------------------------------------------------
(* Vocabulary of the properties *)

\* Positions of the person-class rows in a detector result.
PersonRows(boxes) == { k \in DOMAIN boxes : Names(boxes[k].cls) = "person" }

\* A validator run of SpecV in which the person validator got past its size
\* check and the detector returned.
PersonDetected ==
    /\ vkind = "person"
    /\ vimg.w >= 256 /\ vimg.h >= 256
    /\ vdet.ok

\* Positions of the entries of the call history made by capability `cap`.
CallsOf(cap) == { k \in DOMAIN calls : calls[k].cap = cap }

\* Number of log entries with tag `tag`.
LogCount(tag) == Cardinality({ k \in DOMAIN logs : logs[k].tag = tag })

\* The request has ended with an error envelope that carries no results.
EndedInError ==
    /\ pc = "done"
    /\ response.success = FALSE
    /\ response.status \in {400, 500}
    /\ response.results = << >>

-----------------------------------------------------------------------------
(* C1 *)

\* C1: when the detector result holds exactly one person-class box, the
\* outcome of validate_person_image is the outcome of the size and pose
\* checks on that person box, whatever the other boxes are.
C1_PersonBoxDecides ==
    (PersonDetected /\ Cardinality(PersonRows(vdet.boxes)) = 1) =>
        LET k == CHOOSE j \in PersonRows(vdet.boxes) : TRUE
            onPerson == CheckGeometry(vdet.boxes[k], vimg)
        IN  /\ vres.outcome = onPerson.outcome
            /\ vres.reason = onPerson.reason

-----------------------------------------------------------------------------
(* C2 *)

\* C2: a person image whose shorter side is below 256 is rejected with
\* image_too_small, and no detector call has been made when the request
\* ends that way.
C2_TooSmallBeforeDetection ==
    /\ (pc = "done" /\ Len(logs) = 1 /\ img # NoImage /\ (img.w < 256 \/ img.h < 256))
          => /\ response.status = 400
             /\ response.detail = "image_too_small"
             /\ CallsOf("detector") = {}
    /\ response.detail = "image_too_small" => CallsOf("detector") = {}

C2_Witness ==
    /\ pc = "done"
    /\ response.detail = "image_too_small"
    /\ img.w = 255
    /\ Len(calls) = 1 /\ calls[1].cap = "validate_person"

-----------------------------------------------------------------------------
(* C3 *)

\* C3: a request whose clothing-image count is outside [1, 4] ends at once
\* with invalid_item_count, no detector, generator or recommender call made.
C3_InvalidCountNoCalls ==
    (pc # "start" /\ (num_clothes < 1 \/ num_clothes > 4)) =>
        /\ pc = "done"
        /\ response.status = 400
        /\ response.success = FALSE
        /\ response.detail = "invalid_item_count"
        /\ calls = << >>
        /\ logs = << >> /\ results = << >>

C3_Witness ==
    /\ pc = "done"
    /\ num_clothes = 5
    /\ response.detail = "invalid_item_count"

-----------------------------------------------------------------------------
(* C4 *)

\* C4: a generator call is preceded by an accepting run of the person
\* validator and of the clothing validator on every clothing image; a
\* validator run that does not accept is the last entry of the call history
\* (no later validation, generator or recommender call) and the request has
\* ended with an error envelope without results.
C4_ValidationGatesGeneration ==
    /\ \A g \in CallsOf("generator") :
         /\ \E k \in 1..(g - 1) :
               calls[k].cap = "validate_person" /\ calls[k].out = "accepted"
         /\ \A i \in 0..(num_clothes - 1) :
               \E k \in 1..(g - 1) :
                  /\ calls[k].cap = "validate_clothing"
                  /\ calls[k].num = i
                  /\ calls[k].out = "accepted"
    /\ \A k \in CallsOf("validate_person") \cup CallsOf("validate_clothing") :
         calls[k].out # "accepted" =>
            /\ k = Len(calls)
            /\ EndedInError
            /\ calls[k].cap = "validate_person" => CallsOf("validate_clothing") = {}
            /\ \A j \in CallsOf("validate_clothing") : calls[j].num <= calls[k].num

C4_Witness ==
    /\ pc = "done"
    /\ num_clothes = 3
    /\ \E k \in CallsOf("validate_clothing") :
          calls[k].num = 1 /\ calls[k].out = "rejected"

C4_WitnessGenerated ==
    /\ num_clothes = 2
    /\ Cardinality(CallsOf("generator")) = 2

-----------------------------------------------------------------------------
(* C5 *)

\* C5: when the backend's response for item k carries no image, the request
\* ends there with generation_empty: an error envelope, no generator call
\* for a later item, no recommender call; and no success response ever
\* carries fewer results than there are clothing items.
C5_GenerationFailureIsFatal ==
    /\ \A g \in CallsOf("generator") :
         (calls[g].out # "raised" /\ calls[g].arg = "no_image") =>
            /\ g = Len(calls)
            /\ EndedInError
            /\ response.status = 500
            /\ response.detail = "generation_empty"
            /\ response.item = calls[g].num + 1
            /\ CallsOf("recommender") = {}
    /\ response.success = TRUE => Len(response.results) = num_clothes

C5_Witness ==
    /\ pc = "done"
    /\ num_clothes = 3
    /\ response.detail = "generation_empty"
    /\ response.item = 2
    /\ Len(results) = 1

-----------------------------------------------------------------------------
(* C6 *)

\* C6: once all n generator calls have returned an image, the request ends
\* with success = true and all n results whatever the recommender does; the
\* recommendation attempt adds exactly one log entry after "analyzing".
C6_RecommenderNeverFails ==
    (pc = "done" /\ num_clothes \in 1..4
       /\ Cardinality({ g \in CallsOf("generator") : calls[g].out = "returned" })
             = num_clothes) =>
        /\ response.status = 200
        /\ response.success = TRUE
        /\ response.size = size
        /\ response.results = results
        /\ Len(response.results) = num_clothes
        /\ response.logs = logs
        /\ logs[Len(logs) - 1].tag = "analyzing"
        /\ logs[Len(logs)].tag \in
              {"recommendation", "no_recommendation", "recommendation_failed"}
        /\ LogCount("analyzing") = 1
        /\ \A r \in CallsOf("recommender") :
              calls[r].out \in {"raise", "no_text"} =>
                 logs[Len(logs)].tag = "recommendation_failed"

C6_Witness ==
    /\ pc = "done"
    /\ response.success = TRUE
    /\ Len(response.results) = 2
    /\ \E r \in CallsOf("recommender") : calls[r].out = "raise"

-----------------------------------------------------------------------------
(* C7 *)

\* C7: a success response has n results with indices 0..n-1 in submission
\* order, and logs with exactly one person-validated entry, one
\* clothing-validated entry per clothing image and one generated entry per
\* clothing item.
C7_ResultsAndLogsPerItem ==
    response.success = TRUE =>
        /\ num_clothes \in 1..4
        /\ Len(response.results) = num_clothes
        /\ \A k \in 1..num_clothes : response.results[k].index = k - 1
        /\ \A k \in 1..num_clothes :
              \E g \in CallsOf("generator") :
                 /\ calls[g].num = k - 1
                 /\ Cardinality({ h \in CallsOf("generator") : h < g }) = k - 1
        /\ Cardinality({ j \in DOMAIN response.logs :
                           response.logs[j].tag = "person_validated" }) = 1
        /\ \A i \in 1..num_clothes :
              /\ Cardinality({ j \in DOMAIN response.logs :
                    /\ response.logs[j].tag = "clothing_validated"
                    /\ response.logs[j].num = i }) = 1
              /\ Cardinality({ j \in DOMAIN response.logs :
                    /\ response.logs[j].tag = "generated"
                    /\ response.logs[j].num = i }) = 1
        /\ Cardinality({ j \in DOMAIN response.logs :
                           response.logs[j].tag = "clothing_validated" }) = num_clothes
        /\ Cardinality({ j \in DOMAIN response.logs :
                           response.logs[j].tag = "generated" }) = num_clothes

C7_Witness ==
    /\ response.success = TRUE
    /\ num_clothes = 3
    /\ Len(response.results) = 3
    /\ response.size = <<"M">>

-----------------------------------------------------------------------------
(* C8 *)

\* C8: when the detector returns two or more person-class boxes on an image
\* past the size check, validate_person_image rejects with multiple_people.
C8_MultiplePeople ==
    (PersonDetected /\ Cardinality(PersonRows(vdet.boxes)) >= 2) =>
        /\ vres.outcome = "rejected"
        /\ vres.status = 400
        /\ vres.reason = "multiple_people"

C8_Witness ==
    /\ PersonDetected
    /\ Cardinality(PersonRows(vdet.boxes)) = 2
    /\ vdet.boxes[1].bw = 160 /\ vdet.boxes[1].bh = 320
    /\ vres.reason = "multiple_people"

-----------------------------------------------------------------------------
(* C9 *)

\* The verdict the claim gives a lone person box of bw x bh pixels in a
\* w x h image: width_fraction = bw/w, height_fraction = bh/h; too small when
\* their product is below 0.05 (1/20), else non-frontal when their quotient
\* is below 0.25 (1/4) or above 0.7 (7/10), else accepted.
C9_Verdict(bw, bh, w, h) ==
    IF 20 * bw * bh < w * h THEN "person_too_small"
    ELSE IF 4 * bw * h < bh * w \/ 10 * bw * h > 7 * bh * w THEN "non_frontal_pose"
    ELSE "valid_single_person"

\* C9: with exactly one box, a person box, the outcome is person_too_small
\* below 5% area, else non_frontal_pose outside [0.25, 0.7], else accepted;
\* (0.4, 0.8) is accepted, (0.9, 0.95) is non_frontal_pose.
C9_GeometryThresholds ==
    (PersonDetected /\ Len(vdet.boxes) = 1 /\ PersonRows(vdet.boxes) = {1}) =>
        LET b == vdet.boxes[1]
            verdict == C9_Verdict(b.bw, b.bh, vimg.w, vimg.h)
        IN  /\ vres.reason = verdict
            /\ vres.outcome =
                 (IF verdict = "valid_single_person" THEN "accepted" ELSE "rejected")
            /\ (b.bw * 10 = 4 * vimg.w /\ b.bh * 10 = 8 * vimg.h)
                  => vres.outcome = "accepted"
            /\ (b.bw * 100 = 90 * vimg.w /\ b.bh * 100 = 95 * vimg.h)
                  => vres.reason = "non_frontal_pose"

C9_Witness ==
    /\ PersonDetected
    /\ Len(vdet.boxes) = 1 /\ PersonRows(vdet.boxes) = {1}
    /\ vimg.w = 400 /\ vimg.h = 400
    /\ vdet.boxes[1].bw = 280 /\ vdet.boxes[1].bh = 400
    /\ vres.outcome = "accepted"

-----------------------------------------------------------------------------
(* C10 *)

\* C10: with no person-class box in the detector result, the person image is
\* rejected with blank_or_corrupt exactly when its pixel standard deviation
\* is below 5, and is otherwise accepted without the count, size or pose
\* checks.
C10_NoPersonFallback ==
    (PersonDetected /\ PersonRows(vdet.boxes) = {}) =>
        /\ (vimg.std < 5) <=>
              (vres.outcome = "rejected" /\ vres.reason = "blank_or_corrupt")
        /\ (vimg.std >= 5) <=> (vres.outcome = "accepted")
        /\ \A k \in DOMAIN vres.rules : vres.rules[k] \notin {"count", "area", "ratio"}

C10_Witness ==
    /\ PersonDetected
    /\ PersonRows(vdet.boxes) = {}
    /\ Len(vdet.boxes) = 2
    /\ vimg.std = 5
    /\ vres.outcome = "accepted"

-----------------------------------------------------------------------------
(* C11 *)

\* A validator run of SpecV in which the clothing validator got past its
\* size check and the detector returned.
ClothingDetected ==
    /\ vkind = "clothing"
    /\ vimg.w >= 128 /\ vimg.h >= 128
    /\ vdet.ok

\* C11: a clothing image with shorter side below 128 is rejected with
\* clothing_too_small without a detector call; one with shorter side >= 128
\* on which the detector returns no box is rejected with
\* blank_clothing_image when its pixel standard deviation is below 5 and
\* accepted otherwise.
C11_ClothingSizeAndBlank ==
    /\ (vkind = "clothing" /\ (vimg.w < 128 \/ vimg.h < 128)) =>
          /\ vres.outcome = "rejected"
          /\ vres.status = 400
          /\ vres.reason = "clothing_too_small"
          /\ vres.detCalls = 0
          /\ \A k \in DOMAIN vres.rules : vres.rules[k] # "detect"
    /\ (ClothingDetected /\ vdet.boxes = << >>) =>
          /\ vres.detCalls = 1
          /\ vimg.std < 5 =>
                (vres.outcome = "rejected" /\ vres.reason = "blank_clothing_image")
          /\ vimg.std >= 5 => vres.outcome = "accepted"

C11_Witness ==
    /\ ClothingDetected
    /\ vimg.w = 128
    /\ vdet.boxes = << >>
    /\ vimg.std = 4
    /\ vres.reason = "blank_clothing_image"

C11_WitnessTooSmall ==
    /\ vkind = "clothing"
    /\ vimg.w = 127
    /\ vres.reason = "clothing_too_small"

-----------------------------------------------------------------------------
(* C12 *)

\* C12: a clothing image with shorter side >= 128 on which the detector
\* returns at least one box, of any class, is accepted whatever its pixel
\* standard deviation; the blank-image rule is not evaluated.
C12_AnyBoxAccepts ==
    (ClothingDetected /\ Len(vdet.boxes) >= 1) =>
        /\ vres.outcome = "accepted"
        /\ \A k \in DOMAIN vres.rules : vres.rules[k] # "fallback"

C12_Witness ==
    /\ ClothingDetected
    /\ Len(vdet.boxes) = 1
    /\ Names(vdet.boxes[1].cls) = "dog"
    /\ vimg.std = 4
    /\ vres.outcome = "accepted"

-----------------------------------------------------------------------------
(* C13 *)

\* The request went through the whole pipeline: a valid count and an image
\* returned by the generator for every clothing item.
CompletedPipeline ==
    /\ num_clothes \in 1..4
    /\ Cardinality({ g \in CallsOf("generator") : calls[g].out = "returned" })
          = num_clothes

\* The response is the error envelope {success: false, detail} with a
\* non-2xx status.
ErrorEnvelope ==
    /\ response.success = FALSE
    /\ response.detail # ""
    /\ response.status >= 400
    /\ response.results = << >> /\ response.logs = << >>

\* C13: a request that ends without completing the pipeline (invalid count,
\* validator rejection, generator failure, detector exception, undecodable
\* image) ends with the error envelope and a non-2xx status; success = true
\* is returned only by a completed pipeline.
C13_FailuresGetErrorEnvelope ==
    /\ (pc = "done" /\ ~CompletedPipeline) => ErrorEnvelope
    /\ response.success = TRUE => (pc = "done" /\ CompletedPipeline)
    /\ pc = "done" => (ErrorEnvelope \/ response.success = TRUE)
    /\ \A k \in DOMAIN calls :
          calls[k].out \in {"raised", "rejected", "generation_empty"} =>
             (pc = "done" /\ ErrorEnvelope)

C13_Witness ==
    /\ pc = "done"
    /\ calls # << >>
    /\ calls[Len(calls)].cap = "validate_clothing"
    /\ calls[Len(calls)].out = "raised"
    /\ response.status = 500
    /\ response.detail = "internal_error"

C13_WitnessUndecodable ==
    /\ pc = "done"
    /\ Len(logs) = 1
    /\ calls = << >>
    /\ response.status = 500

-----------------------------------------------------------------------------
(* C15 *)

\* C15: the recommender is called at most once per request, only after all
\* n generator calls have returned and all n results have been appended,
\* and it is given the n generated images in submission order.
C15_RecommenderOnceAfterAll ==
    /\ Cardinality(CallsOf("recommender")) <= 1
    /\ \A r \in CallsOf("recommender") :
          /\ Cardinality({ g \in CallsOf("generator") :
                             g < r /\ calls[g].out = "returned" }) = num_clothes
          /\ \A g \in CallsOf("generator") : g < r /\ calls[g].out = "returned"
          /\ Len(results) = num_clothes
          /\ calls[r].num = num_clothes
          /\ calls[r].label = [k \in 1..num_clothes |-> k - 1]

C15_Witness ==
    /\ pc = "done"
    /\ num_clothes = 3
    /\ \E r \in CallsOf("recommender") :
          calls[r].out = "text" /\ calls[r].label = <<0, 1, 2>>

-----------------------------------------------------------------------------
(* C16 *)

\* The entries of the call history made by capability `cap`, in order.
CallSeq(cap) == SelectSeq(calls, LAMBDA c : c.cap = cap)

\* C16: no capability call is repeated: the detector is called at most once
\* on the person image and at most once on each clothing image (at most
\* 1 + n calls), the generator at most once per clothing item, in index
\* order 0, 1, ..., and the recommender at most once, in every state of
\* every execution.
C16_NoRetries ==
    /\ \A k, j \in CallsOf("detector") :
          (calls[k].arg = calls[j].arg /\ calls[k].num = calls[j].num) => k = j
    /\ \A k \in CallsOf("detector") :
          \/ calls[k].arg = "person" /\ calls[k].num = 0
          \/ calls[k].arg = "clothing" /\ calls[k].num \in 0..(num_clothes - 1)
    /\ Cardinality(CallsOf("detector")) <= 1 + num_clothes
    /\ Len(CallSeq("generator")) <= num_clothes
    /\ \A k \in DOMAIN CallSeq("generator") : CallSeq("generator")[k].num = k - 1
    /\ Cardinality(CallsOf("recommender")) <= 1

C16_Witness ==
    /\ pc = "done"
    /\ num_clothes = 2
    /\ response.success = FALSE
    /\ Cardinality(CallsOf("detector")) = 3
    /\ Len(CallSeq("generator")) = 2
    /\ calls[Len(calls)].out = "raised"

-----------------------------------------------------------------------------
(* C18 *)

\* The log trail of a request with n clothing images and normalised label
\* sz, up to and including the "analyzing" entry.
C18_Trail(n, sz) ==
    << [tag |-> "received", num |-> n, txt |-> sz],
       [tag |-> "person_validated", num |-> 0, txt |-> << >>] >>
    \o [i \in 1..n |-> [tag |-> "clothing_validated", num |-> i, txt |-> << >>]]
    \o << [tag |-> "generating", num |-> 0, txt |-> << >>] >>
    \o [i \in 1..n |-> [tag |-> "generated", num |-> i, txt |-> << >>]]
    \o << [tag |-> "analyzing", num |-> 0, txt |-> << >>] >>

C18_IsPrefix(s, t) == Len(s) <= Len(t) /\ SubSeq(t, 1, Len(s)) = s

\* The three entries a recommendation attempt can leave.
C18_Closing ==
    { [tag |-> t, num |-> 0, txt |-> << >>] :
        t \in {"recommendation", "no_recommendation", "recommendation_failed"} }

\* C18: logs only grows by appending; at every moment it is a prefix of
\* [received, person-validated, clothing-validated 1..n, generating,
\* generated 1..n, analyzing, R], and in a success response it is exactly
\* that sequence, R being one of the three recommendation entries.
C18_LogsAppendOnlyOrdered ==
    /\ [][C18_IsPrefix(logs, logs')]_vars
    /\ [](logs # << >> =>
            \/ C18_IsPrefix(logs, C18_Trail(num_clothes, size))
            \/ /\ Len(logs) = 2 * num_clothes + 5
               /\ SubSeq(logs, 1, Len(logs) - 1) = C18_Trail(num_clothes, size)
               /\ logs[Len(logs)] \in C18_Closing)
    /\ [](response.success = TRUE =>
            /\ response.logs = logs
            /\ Len(response.logs) = 2 * num_clothes + 5
            /\ SubSeq(response.logs, 1, 2 * num_clothes + 4)
                  = C18_Trail(num_clothes, response.size)
            /\ response.logs[2 * num_clothes + 5] \in C18_Closing)

C18_Witness ==
    /\ response.success = TRUE
    /\ num_clothes = 2
    /\ Len(response.logs) = 9
    /\ response.logs[9].tag = "no_recommendation"
    /\ response.logs[4].tag = "clothing_validated" /\ response.logs[4].num = 2
    /\ response.logs[7].tag = "generated" /\ response.logs[7].num = 2

-----------------------------------------------------------------------------
(* C19 *)

\* The rules a validator run evaluated.
RulesOf(r) == { r.rules[k] : k \in DOMAIN r.rules }

\* C19: the pose ratio is computed only for a box that has passed the area
\* test (width_fraction * height_fraction >= 0.05), so never with a zero
\* height_fraction; a zero-width or zero-height box, once measured, is
\* rejected as person_too_small and the validator does not fail on it.  The
\* box measured is row 0 of the detector result (line 171).
C19_NoDivisionByZero ==
    /\ (vkind = "person" /\ "ratio" \in RulesOf(vres)) =>
          /\ vdet.boxes[1].bh # 0
          /\ vdet.boxes[1].bw # 0
          /\ 20 * vdet.boxes[1].bw * vdet.boxes[1].bh >= vimg.w * vimg.h
          /\ \E i, j \in DOMAIN vres.rules :
                i < j /\ vres.rules[i] = "area" /\ vres.rules[j] = "ratio"
    /\ (PersonDetected /\ Cardinality(PersonRows(vdet.boxes)) = 1
          /\ (vdet.boxes[1].bh = 0 \/ vdet.boxes[1].bw = 0)) =>
          /\ vres.outcome = "rejected"
          /\ vres.reason = "person_too_small"
          /\ "ratio" \notin RulesOf(vres)

C19_Witness ==
    /\ PersonDetected
    /\ Len(vdet.boxes) = 1 /\ PersonRows(vdet.boxes) = {1}
    /\ vdet.boxes[1].bw = 40 /\ vdet.boxes[1].bh = 0
    /\ vres.reason = "person_too_small"

C19_WitnessRatio ==
    /\ vkind = "person"
    /\ "ratio" \in RulesOf(vres)
    /\ vres.reason = "non_frontal_pose"

-----------------------------------------------------------------------------
(* C20 *)

\* The person validator's rules in order, each with the reason it rejects
\* with, decided on the image, the detector result and the measured box
\* (row 0): the result is that of the first rule that settles the outcome,
\* and the rules evaluated are those up to it.
C20_Person(im, boxes) ==
    LET n == Cardinality(PersonRows(boxes))
        b == boxes[1]
    IN  IF im.w < 256 \/ im.h < 256
        THEN <<"rejected", "image_too_small", <<"size">> >>
        ELSE IF n = 0 /\ im.std < 5
        THEN <<"rejected", "blank_or_corrupt", <<"size", "detect", "fallback">> >>
        ELSE IF n = 0
        THEN <<"accepted", "", <<"size", "detect", "fallback">> >>
        ELSE IF n > 1
        THEN <<"rejected", "multiple_people", <<"size", "detect", "count">> >>
        ELSE IF 20 * b.bw * b.bh < im.w * im.h
        THEN <<"rejected", "person_too_small", <<"size", "detect", "count", "area">> >>
        ELSE IF 4 * b.bw * im.h < b.bh * im.w \/ 10 * b.bw * im.h > 7 * b.bh * im.w
        THEN <<"rejected", "non_frontal_pose",
               <<"size", "detect", "count", "area", "ratio">> >>
        ELSE <<"accepted", "", <<"size", "detect", "count", "area", "ratio">> >>

\* The same for the clothing validator.
C20_Clothing(im, boxes) ==
    IF im.w < 128 \/ im.h < 128
    THEN <<"rejected", "clothing_too_small", <<"size">> >>
    ELSE IF boxes # << >>
    THEN <<"accepted", "", <<"size", "detect">> >>
    ELSE IF im.std < 5
    THEN <<"rejected", "blank_clothing_image", <<"size", "detect", "fallback">> >>
    ELSE <<"accepted", "", <<"size", "detect", "fallback">> >>

\* C20: a validator run (the detector returning when called) ends either
\* accepted or rejected with one reason of its vocabulary; the reason is
\* that of the first failing rule in the order size, detection/fallback,
\* count, area, ratio, and no rule after it is evaluated.
C20_OneOutcomeFirstFailingRule ==
    (vkind # "none" /\ (vdet.ok \/ vres.detCalls = 0)) =>
        LET want == IF vkind = "person" THEN C20_Person(vimg, vdet.boxes)
                    ELSE C20_Clothing(vimg, vdet.boxes)
        IN  /\ vres.outcome \in {"accepted", "rejected"}
            /\ vres.outcome = want[1]
            /\ vres.outcome = "rejected" =>
                  /\ vres.reason = want[2]
                  /\ vres.status = 400
                  /\ vkind = "person" =>
                        vres.reason \in {"image_too_small", "blank_or_corrupt",
                                         "multiple_people", "person_too_small",
                                         "non_frontal_pose"}
                  /\ vkind = "clothing" =>
                        vres.reason \in {"clothing_too_small", "blank_clothing_image"}
            /\ vres.rules = want[3]

C20_Witness ==
    /\ PersonDetected
    /\ Cardinality(PersonRows(vdet.boxes)) = 2
    /\ vdet.boxes[1].bw = 80 /\ vdet.boxes[1].bh = 80
    /\ vres.reason = "multiple_people"
    /\ vres.rules = <<"size", "detect", "count">>

=============================================================================
